---- MODULE Spec2Model ----
(***************************************************************************)
(* A model of streamlit_cvs_app_full.py: the persisted column mapping      *)
(* (load_mapping / save_mapping / reset_mapping), the bulk-import mapping  *)
(* flow (map_google_forms), the risk scorer (calculate_risk) and the       *)
(* analysis pipeline (analyze_data, generate_charts, generate_pdf).        *)
(*                                                                         *)
(* Text values are sequences of one-character strings, so that str.lower,  *)
(* str.replace, str.strip, float() and int() are computed character by     *)
(* character.  Column names and dictionary keys are plain strings.         *)
(* A Python float is a record [k, v]: k = "fin" with v the value times 10  *)
(* (one decimal digit of fixed point), k = "inf" with v the sign, or       *)
(* k = "nan".                                                              *)
(***************************************************************************)
EXTENDS Integers, Sequences, FiniteSets, TLC

VARIABLES
    row,        \* the record handed to calculate_risk (field name -> cell)
    result,     \* what calculate_risk returned for it, or NoResult
    file,       \* MAPPING_FILE on disk: whether it exists, and its JSON text
    loaded,     \* what the last load_mapping() call returned
    lastOp,     \* the last mapping-store call: its name, argument, the file before
    page,       \* the widgets as the last script run rendered them
    run,        \* what the current (or last) script run did so far
    pc,         \* where the script run is: "idle" once it has ended
    df          \* the DataFrame analyze_data works on

riskVars == <<row, result>>
storeVars == <<loaded, lastOp>>
appVars == <<page, run, pc, df>>
vars == <<row, result, file, loaded, lastOp, page, run, pc, df>>

(***************************************************************************)
(* Text                                                                    *)
(***************************************************************************)
UPPER == <<"A","B","C","D","E","F","G","H","I","J","K","L","M",
           "N","O","P","Q","R","S","T","U","V","W","X","Y","Z">>
LOWER == <<"a","b","c","d","e","f","g","h","i","j","k","l","m",
           "n","o","p","q","r","s","t","u","v","w","x","y","z">>
DIGITS == <<"0","1","2","3","4","5","6","7","8","9">>

\* the lower-case letter of each upper-case letter
ToLower ==
    [c \in {UPPER[i] : i \in 1..Len(UPPER)} |->
        LOWER[CHOOSE i \in 1..Len(UPPER) : UPPER[i] = c]]

\* str.lower on one character
LowerChar(c) == IF c \in DOMAIN ToLower THEN ToLower[c] ELSE c

\* str.lower
Lower(s) == [i \in 1..Len(s) |-> LowerChar(s[i])]

\* the value of each decimal digit
DigitValue ==
    [c \in {DIGITS[i] : i \in 1..Len(DIGITS)} |->
        (CHOOSE i \in 1..Len(DIGITS) : DIGITS[i] = c) - 1]

IsDigit(c) == c \in DOMAIN DigitValue
DigitVal(c) == DigitValue[c]

\* str.strip: leading and trailing blanks removed
RECURSIVE LStrip(_)
LStrip(s) == IF s # <<>> /\ Head(s) = " " THEN LStrip(Tail(s)) ELSE s
RECURSIVE RStrip(_)
RStrip(s) ==
    IF s # <<>> /\ s[Len(s)] = " " THEN RStrip(SubSeq(s, 1, Len(s) - 1)) ELSE s
Strip(s) == RStrip(LStrip(s))

\* whether text s starts with text p
StartsWith(s, p) == Len(s) >= Len(p) /\ SubSeq(s, 1, Len(p)) = p

\* str.replace(old, ""): every occurrence of old removed, scanning left to right
RECURSIVE Remove(_, _)
Remove(s, old) ==
    IF s = <<>> THEN <<>>
    ELSE IF StartsWith(s, old) THEN Remove(SubSeq(s, Len(old) + 1, Len(s)), old)
    ELSE <<Head(s)>> \o Remove(Tail(s), old)

\* the value of a run of decimal digits
RECURSIVE DigitsVal(_)
DigitsVal(s) ==
    IF s = <<>> THEN 0 ELSE DigitsVal(SubSeq(s, 1, Len(s) - 1)) * 10 + DigitVal(s[Len(s)])

AllDigits(s) == \A i \in 1..Len(s) : IsDigit(s[i])

(***************************************************************************)
(* Floats                                                                  *)
(***************************************************************************)
Fin(tenths) == [k |-> "fin", v |-> tenths]
NaN == [k |-> "nan", v |-> 0]
Inf(sign) == [k |-> "inf", v |-> sign]
ValueError == [k |-> "error", v |-> 0]

\* the whole number n as a float
Num(n) == Fin(n * 10)

FNeg(a) == IF a.k = "nan" THEN a ELSE [k |-> a.k, v |-> -a.v]

\* a + b
FAdd(a, b) ==
    IF a.k = "nan" \/ b.k = "nan" THEN NaN
    ELSE IF a.k = "inf" /\ b.k = "inf" THEN (IF a.v = b.v THEN a ELSE NaN)
    ELSE IF a.k = "inf" THEN a
    ELSE IF b.k = "inf" THEN b
    ELSE Fin(a.v + b.v)

\* a * n for a whole number n > 0
FTimes(a, n) == IF a.k = "fin" THEN Fin(a.v * n) ELSE a

\* a < b; every comparison with NaN is false
FLt(a, b) ==
    IF a.k = "nan" \/ b.k = "nan" THEN FALSE
    ELSE IF a.k = "inf" THEN a.v < 0 /\ ~(b.k = "inf" /\ b.v < 0)
    ELSE IF b.k = "inf" THEN b.v > 0
    ELSE a.v < b.v

\* the builtin min(a, b): a unless b < a
PyMin(a, b) == IF FLt(b, a) THEN b ELSE a

\* float() of an unsigned literal: digits, with an optional point followed or
\* preceded by digits; "inf", "infinity" and "nan" in any case.  The fixed
\* point keeps one decimal digit, so the texts fed to it carry at most one;
\* exponents and digit-group underscores are not among them either.
FloatUnsigned(s) ==
    LET l == Lower(s)
        dots == {i \in 1..Len(s) : s[i] = "."}
    IN  IF l = <<"n","a","n">> THEN NaN
        ELSE IF l = <<"i","n","f">> \/ l = <<"i","n","f","i","n","i","t","y">> THEN Inf(1)
        ELSE IF dots = {} THEN
            (IF s # <<>> /\ AllDigits(s) THEN Fin(DigitsVal(s) * 10) ELSE ValueError)
        ELSE IF Cardinality(dots) = 1 THEN
            LET p == CHOOSE i \in dots : TRUE
                int == SubSeq(s, 1, p - 1)
                frac == SubSeq(s, p + 1, Len(s))
            IN  IF AllDigits(int) /\ AllDigits(frac) /\ Len(int) + Len(frac) > 0
                    /\ Len(frac) <= 1
                THEN Fin(DigitsVal(int) * 10 + DigitsVal(frac))
                ELSE ValueError
        ELSE ValueError

\* float(text): surrounding blanks stripped, an optional sign, then the literal
FloatOfText(t) ==
    LET s == Strip(t)
    IN  IF s = <<>> THEN ValueError
        ELSE IF Head(s) = "-" THEN
            (LET f == FloatUnsigned(Tail(s)) IN IF f.k = "error" THEN f ELSE FNeg(f))
        ELSE IF Head(s) = "+" THEN FloatUnsigned(Tail(s))
        ELSE FloatUnsigned(s)

(***************************************************************************)
(* Cell values of a record: a str, a float, or the Series that row.get     *)
(* returns for a column label the frame holds more than once.              *)
(***************************************************************************)
Str(s) == [t |-> "str", s |-> s, f |-> Num(0)]
Flt(f) == [t |-> "float", s |-> <<>>, f |-> f]
IntCell(n) == [t |-> "int", s |-> <<>>, f |-> Num(n)]
SeriesCell == [t |-> "series", s |-> <<>>, f |-> Num(0)]

\* the decimal digits of a natural number
RECURSIVE NatText(_)
NatText(n) == IF n < 10 THEN <<DIGITS[n + 1]>> ELSE NatText(n \div 10) \o <<DIGITS[(n % 10) + 1]>>

\* str(f) of a float
FloatText(f) ==
    IF f.k = "nan" THEN <<"n","a","n">>
    ELSE IF f.k = "inf" THEN (IF f.v < 0 THEN <<"-">> ELSE <<>>) \o <<"i","n","f">>
    ELSE LET a == IF f.v < 0 THEN -f.v ELSE f.v
         IN  (IF f.v < 0 THEN <<"-">> ELSE <<>>)
                 \o NatText(a \div 10) \o <<".">> \o NatText(a % 10)

\* str(x)
StrOf(c) ==
    IF c.t = "str" THEN c.s
    ELSE IF c.t = "float" THEN FloatText(c.f)
    ELSE IF c.t = "int" THEN
        (IF c.f.v < 0 THEN <<"-">> \o NatText((-c.f.v) \div 10) ELSE NatText(c.f.v \div 10))
    ELSE <<"<","S","e","r","i","e","s",">">>

\* float(x): a str is parsed, a float is itself, a Series of several values
\* raises TypeError
FloatOf(c) ==
    IF c.t = "str" THEN FloatOfText(c.s)
    ELSE IF c.t = "float" \/ c.t = "int" THEN c.f
    ELSE ValueError

(***************************************************************************)
(* calculate_risk                                                          *)
(***************************************************************************)
symptoms == <<"eye_strain", "blurry_vision", "dry_eyes", "headaches", "neck_pain">>

\* float(row.get(key, 0))
FloatOfField(r, key) == IF key \in DOMAIN r THEN FloatOf(r[key]) ELSE Num(0)

\* the hours sum with no try/except semantics of its own: a field that fails
\* to parse counts as 0 and the other field is still added
HoursOfPartial(r) ==
    LET a == FloatOfField(r, "hours_academic")
        b == FloatOfField(r, "hours_non_academic")
    IN  FAdd(IF a.k = "error" THEN Num(0) ELSE a, IF b.k = "error" THEN Num(0) ELSE b)

\* the try/except around the hours sum: any failure gives hours = 0
HoursOf(r) ==
    LET a == FloatOfField(r, "hours_academic")
        b == FloatOfField(r, "hours_non_academic")
    IN  IF a.k = "error" \/ b.k = "error" THEN Num(0) ELSE FAdd(a, b)

\* the symptom test without .lower()
SymptomHitExact(r, s) ==
    LET t == IF s \in DOMAIN r THEN StrOf(r[s]) ELSE <<"N","o">>
    IN  t \in {<<"y","e","s">>, <<"s","o","m","e","t","i","m","e","s">>}

\* str(row.get(s, "No")).lower() in ["yes", "sometimes"]
SymptomHit(r, s) ==
    LET t == IF s \in DOMAIN r THEN StrOf(r[s]) ELSE <<"N","o">>
    IN  Lower(t) \in {<<"y","e","s">>, <<"s","o","m","e","t","i","m","e","s">>}

SymptomCount(r) == Cardinality({i \in 1..Len(symptoms) : SymptomHit(r, symptoms[i])})

\* the score with the hours contribution left uncapped
ScoreOfNoCap(r) == FAdd(FTimes(HoursOf(r), 10), Num(SymptomCount(r) * 10))

\* score = min(hours*10, 50) + symptom_count*10
ScoreOf(r) == FAdd(PyMin(FTimes(HoursOf(r), 10), Num(50)), Num(SymptomCount(r) * 10))

RiskOf(score) ==
    IF FLt(score, Num(30)) THEN "Low"
    ELSE IF FLt(score, Num(60)) THEN "Medium"
    ELSE "High"

calculate_risk(r) == LET score == ScoreOf(r) IN [score |-> score, risk |-> RiskOf(score)]

\* marks a field the record does not have
AbsentMark == Str(<<"<absent>">>)

\* the record with the fields of c that are not marked absent
MkRow(c) == [f \in {g \in DOMAIN c : c[g] # AbsentMark} |-> c[f]]

\* the record without field f
Without(r, f) == [g \in DOMAIN r \ {f} |-> r[g]]

NoResult == [score |-> NaN, risk |-> "none"]

(***************************************************************************)
(* Config                                                                  *)
(***************************************************************************)
STANDARD_COLUMNS ==
    << "timestamp", "consent", "age_group", "age", "sex", "grade_level",
       "hours_academic", "hours_non_academic", "devices", "break_frequency",
       "screen_tools", "screen_tools_details", "eye_strain", "blurry_vision",
       "dry_eyes", "headaches", "neck_pain", "symptoms_worse", "lighting",
       "posture", "twenty_rule", "eye_level_screen", "visited_specialist",
       "impact_schoolwork", "mitigation_measures", "school_support_opinion" >>
StandardSet == {STANDARD_COLUMNS[i] : i \in 1..Len(STANDARD_COLUMNS)}
SKIP == "-- skip --"

(***************************************************************************)
(* dict: a sequence of <<key, value>> pairs with distinct keys, in         *)
(* insertion order                                                         *)
(***************************************************************************)
DictKeys(d) == {d[i][1] : i \in 1..Len(d)}
DictGet(d, k) == d[CHOOSE i \in 1..Len(d) : d[i][1] = k][2]
\* d.setdefault(k, v): a key already present keeps its value
DictSetDefault(d, k, v) == IF k \in DictKeys(d) THEN d ELSE Append(d, <<k, v>>)

\* d[k] = v
DictSet(d, k, v) ==
    IF k \in DictKeys(d)
    THEN [i \in 1..Len(d) |-> IF d[i][1] = k THEN <<k, v>> ELSE d[i]]
    ELSE Append(d, <<k, v>>)

(***************************************************************************)
(* json.dump / json.load of a dict of strings, as a sequence of tokens     *)
(***************************************************************************)
P(c) == <<"punct", c>>
S(x) == <<"string", x>>

RECURSIVE JsonMembers(_, _)
JsonMembers(d, i) ==
    IF i > Len(d) THEN <<>>
    ELSE (IF i > 1 THEN <<P(",")>> ELSE <<>>)
            \o <<S(d[i][1]), P(":"), S(d[i][2])>> \o JsonMembers(d, i + 1)

JsonDump(d) == <<P("{")>> \o JsonMembers(d, 1) \o <<P("}")>>

JsonError == [ok |-> FALSE, d |-> <<>>]

\* the members of an object from token i on; the closing brace must be the
\* last token (anything after it is json's "Extra data" error)
RECURSIVE JsonParseMembers(_, _, _)
JsonParseMembers(t, i, d) ==
    IF i + 3 > Len(t) THEN JsonError
    ELSE IF t[i][1] # "string" \/ t[i + 1] # P(":") \/ t[i + 2][1] # "string" THEN JsonError
    ELSE LET d2 == DictSet(d, t[i][2], t[i + 2][2])
         IN  IF t[i + 3] = P("}") THEN
                 (IF i + 3 = Len(t) THEN [ok |-> TRUE, d |-> d2] ELSE JsonError)
             ELSE IF t[i + 3] = P(",") THEN JsonParseMembers(t, i + 4, d2)
             ELSE JsonError

JsonLoad(t) ==
    IF Len(t) < 2 \/ t[1] # P("{") THEN JsonError
    ELSE IF t[2] = P("}") THEN (IF Len(t) = 2 THEN [ok |-> TRUE, d |-> <<>>] ELSE JsonError)
    ELSE JsonParseMembers(t, 2, <<>>)

(***************************************************************************)
(* load_mapping / save_mapping / reset_mapping                             *)
(***************************************************************************)
NoFile == [exists |-> FALSE, text |-> <<>>]
None == [some |-> FALSE, raised |-> FALSE, d |-> <<>>]
Some(d) == [some |-> TRUE, raised |-> FALSE, d |-> d]
Raised == [some |-> FALSE, raised |-> TRUE, d |-> <<>>]

\* the mapping read from the file, None when there is no file
load_mapping(f) ==
    IF f.exists
    THEN (LET j == JsonLoad(f.text) IN IF j.ok THEN Some(j.d) ELSE Raised)
    ELSE None

\* the file opened with "a" in place of "w": the dump lands after the old text
save_mapping_append(f, mapping) ==
    [exists |-> TRUE, text |-> (IF f.exists THEN f.text ELSE <<>>) \o JsonDump(mapping)]

\* the file after save_mapping(mapping): opened with "w", so the old text is gone
save_mapping(f, mapping) == [exists |-> TRUE, text |-> JsonDump(mapping)]

\* the file after reset_mapping()
reset_mapping(f) == IF f.exists THEN NoFile ELSE f

(***************************************************************************)
(* DataFrame: column labels (a label may occur twice) and rows of cells    *)
(***************************************************************************)
EmptyFrame == [columns |-> <<>>, rows |-> <<>>]
Labels(frame) == {frame.columns[j] : j \in 1..Len(frame.columns)}
Positions(frame, c) == {j \in 1..Len(frame.columns) : frame.columns[j] = c}

\* row i as the Series that apply(axis=1) and iterrows hand out: get(label)
\* is the cell, or a Series of cells when the label occurs more than once
RowView(frame, i) ==
    [c \in Labels(frame) |->
        IF Cardinality(Positions(frame, c)) = 1
        THEN frame.rows[i][CHOOSE j \in Positions(frame, c) : TRUE]
        ELSE SeriesCell]

\* rename that forgets the columns the mapping does not name
RenameDropping(frame, d) ==
    LET keep == SelectSeq([j \in 1..Len(frame.columns) |-> j],
                          LAMBDA j : frame.columns[j] \in DictKeys(d))
    IN  [columns |-> [n \in 1..Len(keep) |-> DictGet(d, frame.columns[keep[n]])],
         rows |-> [i \in 1..Len(frame.rows) |-> [n \in 1..Len(keep) |-> frame.rows[i][keep[n]]]]]

\* frame.rename(columns=d): a label that is a key of d becomes d's value for it,
\* every other label stays
Rename(frame, d) ==
    [columns |-> [j \in 1..Len(frame.columns) |->
                    IF frame.columns[j] \in DictKeys(d) THEN DictGet(d, frame.columns[j])
                    ELSE frame.columns[j]],
     rows |-> frame.rows]

\* frame[name] = vals: the column is replaced where it exists, appended otherwise
AssignColumn(frame, name, vals) ==
    IF name \in Labels(frame)
    THEN [columns |-> frame.columns,
          rows |-> [i \in 1..Len(frame.rows) |->
                      [j \in 1..Len(frame.columns) |->
                          IF frame.columns[j] = name THEN vals[i] ELSE frame.rows[i][j]]]]
    ELSE [columns |-> Append(frame.columns, name),
          rows |-> [i \in 1..Len(frame.rows) |-> Append(frame.rows[i], vals[i])]]

(***************************************************************************)
(* map_google_forms                                                        *)
(***************************************************************************)
\* the loop over STANDARD_COLUMNS from index i on: mapping[choice] = std_col
\* for every choice that is not "-- skip --"
RECURSIVE BuildMapping(_, _, _)
BuildMapping(choices, i, mapping) ==
    IF i > Len(STANDARD_COLUMNS) THEN mapping
    ELSE LET std_col == STANDARD_COLUMNS[i]
             choice == choices[std_col]
         IN  BuildMapping(choices, i + 1,
                 IF choice # SKIP THEN DictSet(mapping, choice, std_col) ELSE mapping)

\* `if saved_mapping:` -- None and the empty dict are both false
Truthy(saved) == saved.some /\ saved.d # <<>>

\* what map_google_forms(frame) does with the file f, the selectbox values and
\* the Save Mapping button: the frame it returns, the file afterwards,
\* whether the interactive flow was entered, the mapping it applied
map_google_forms(f, frame, choices, saveClicked) ==
    LET saved_mapping == load_mapping(f)
        mapping == BuildMapping(choices, 1, <<>>)
    IN  IF Truthy(saved_mapping) THEN
            [df |-> Rename(frame, saved_mapping.d), file |-> f, saved |-> saved_mapping,
             entered |-> FALSE, built |-> None, applied |-> saved_mapping]
        ELSE IF saveClicked THEN
            [df |-> Rename(frame, mapping), file |-> save_mapping(f, mapping),
             saved |-> saved_mapping, entered |-> TRUE, built |-> Some(mapping),
             applied |-> Some(mapping)]
        ELSE
            [df |-> frame, file |-> f, saved |-> saved_mapping,
             entered |-> TRUE, built |-> Some(mapping), applied |-> None]

(***************************************************************************)
(* generate_charts / generate_pdf / analyze_data                           *)
(***************************************************************************)
LevelText ==
    [Low |-> <<"L","o","w">>, Medium |-> <<"M","e","d","i","u","m">>,
     High |-> <<"H","i","g","h">>]

\* int(text): surrounding blanks stripped, an optional sign, then digits
IntOfText(t) ==
    LET s == Strip(t)
        body == IF s # <<>> /\ Head(s) \in {"-", "+"} THEN Tail(s) ELSE s
    IN  IF body # <<>> /\ AllDigits(body)
        THEN [ok |-> TRUE, n |-> IF s[1] = "-" THEN -DigitsVal(body) ELSE DigitsVal(body)]
        ELSE [ok |-> FALSE, n |-> 0]

\* pd.isna(x)
IsNa(c) == c.t = "float" /\ c.f.k = "nan"

\* 0 if pd.isna(x) else int(str(x).replace('+','').replace('times','').strip())
BreakFrequencyNumeric(c) ==
    IF IsNa(c) THEN [ok |-> TRUE, n |-> 0]
    ELSE IntOfText(Remove(Remove(StrOf(c), <<"+">>), <<"t","i","m","e","s">>))

\* sum([1 for s in symptom_cols if str(r.get(s,"No")).lower()=="yes"])
SymptomScore(r) ==
    Cardinality({i \in 1..Len(symptoms) :
        Lower(IF symptoms[i] \in DOMAIN r THEN StrOf(r[symptoms[i]]) ELSE <<"N","o">>)
            = <<"y","e","s">>})

\* frame[col].str.lower() works: the label occurs once and the column holds text
StrColumn(frame, c) ==
    /\ Cardinality(Positions(frame, c)) = 1
    /\ \E i \in 1..Len(frame.rows) : frame.rows[i][CHOOSE j \in Positions(frame, c) : TRUE].t = "str"

\* the parsed break frequency written back over the break_frequency column
WithHelpersInPlace(frame) ==
    LET j == CHOOSE k \in Positions(frame, "break_frequency") : TRUE
        numeric == [i \in 1..Len(frame.rows) |->
                      IntCell(BreakFrequencyNumeric(frame.rows[i][j]).n)]
        withNumeric == AssignColumn(frame, "break_frequency", numeric)
    IN  AssignColumn(withNumeric, "symptom_score",
            [i \in 1..Len(frame.rows) |-> IntCell(SymptomScore(RowView(withNumeric, i)))])

\* lines 104-105: the two helper columns of the scatter chart
WithHelpers(frame) ==
    LET j == CHOOSE k \in Positions(frame, "break_frequency") : TRUE
        numeric == [i \in 1..Len(frame.rows) |-> IntCell(BreakFrequencyNumeric(frame.rows[i][j]).n)]
        withNumeric == AssignColumn(frame, "break_frequency_numeric", numeric)
    IN  AssignColumn(withNumeric, "symptom_score",
            [i \in 1..Len(frame.rows) |-> IntCell(SymptomScore(RowView(withNumeric, i)))])

\* generate_charts(df): the frame afterwards and the exception that ended it.
\* Line 87 raises when a symptom column is missing, doubled or holds no text;
\* line 95 when there is no devices column; line 104 when a break frequency
\* is no integer (or the label is doubled); lines 104-105 add two columns.
generate_charts(frame) ==
    IF \E i \in 1..Len(symptoms) : ~StrColumn(frame, symptoms[i])
    THEN [df |-> frame, error |-> "symptom column"]
    ELSE IF "devices" \notin Labels(frame) THEN [df |-> frame, error |-> "KeyError devices"]
    ELSE IF "break_frequency" \notin Labels(frame) THEN [df |-> frame, error |-> "none"]
    ELSE IF Cardinality(Positions(frame, "break_frequency")) > 1
            \/ \E i \in 1..Len(frame.rows) :
                 ~BreakFrequencyNumeric(
                     frame.rows[i][CHOOSE k \in Positions(frame, "break_frequency") : TRUE]).ok
    THEN [df |-> frame, error |-> "ValueError break_frequency"]
    ELSE [df |-> WithHelpers(frame), error |-> "none"]

\* generate_pdf(df, charts): the risk lines of the report, one per row, from
\* calculate_risk(row); the frame is only read
generate_pdf(frame) ==
    [df |-> frame,
     lines |-> [i \in 1..Len(frame.rows) |-> calculate_risk(RowView(frame, i))]]

\* line 156: risk_score and risk_level from calculate_risk on every row
WithRisk(frame) ==
    LET scores == [i \in 1..Len(frame.rows) |-> calculate_risk(RowView(frame, i))]
    IN  AssignColumn(
            AssignColumn(frame, "risk_score",
                [i \in 1..Len(frame.rows) |-> Flt(scores[i].score)]),
            "risk_level", [i \in 1..Len(frame.rows) |-> Str(LevelText[scores[i].risk])])

(***************************************************************************)
(* The script: every interaction reruns it from the top.  page holds the   *)
(* widget values the run read; run records what the run did.               *)
(***************************************************************************)
MANUAL == "Real-time Entry"
UPLOAD == "Google Forms CSV Upload"

NoUpload == [some |-> FALSE, df |-> EmptyFrame]
Uploaded(frame) == [some |-> TRUE, df |-> frame]

AllSkip == [c \in StandardSet |-> SKIP]
BlankResponse == [c \in StandardSet |-> <<>>]

FirstPage ==
    [mode |-> MANUAL, csv |-> NoUpload, choices |-> AllSkip, flow |-> FALSE,
     response |-> BlankResponse]

NoRun ==
    [kind |-> "first", reset |-> FALSE, save |-> FALSE, before |-> NoFile,
     saved |-> None, entered |-> FALSE, built |-> None, applied |-> None,
     choices |-> AllSkip, source |-> EmptyFrame, analysed |-> FALSE,
     given |-> EmptyFrame, scored |-> EmptyFrame, lines |-> <<>>, error |-> "none"]

NoOp == [op |-> "none", expect |-> None, before |-> NoFile, overwrote |-> FALSE]

\* -- bounds on what the operator does ------------------------------------
\* rows in an uploaded file
MaxRows == 1
\* the canonical fields whose selectbox the operator moves off "-- skip --"
Pickable == {"timestamp", "age", "break_frequency"}
\* the source columns the operator picks
PickedSources == {"Q1", "Q2", "age"}
\* the form fields the operator types into, and what is typed
TypedTexts ==
    [break_frequency |-> {<<>>, <<"2">>, <<"3","+"," ","t","i","m","e","s">>},
     hours_academic |-> {<<>>, <<"2">>, <<"n","a","n">>},
     eye_strain |-> {<<>>, <<"Y","e","s">>}]

\* an export whose headers are all question texts
PlainColumns == <<"Q1", "Q2">>
PlainRows == { <<Str(<<"x">>), Str(<<"y">>)>> }
\* an export most of whose headers already are canonical names
PartlyColumns ==
    << "Q1", "age", "timestamp", "break_frequency", "devices", "eye_strain",
       "blurry_vision", "dry_eyes", "headaches", "neck_pain", "hours_academic" >>
PartlyRows ==
    { << Str(<<"x">>), IntCell(15), Str(<<"t","1">>), Str(<<"3","+"," ","t","i","m","e","s">>),
         Str(<<"P","C">>), Str(<<"Y","e","s">>), Str(<<"N","o">>),
         Str(<<"S","o","m","e","t","i","m","e","s">>), Str(<<"N","o">>), Str(<<"N","o">>),
         Flt(Num(2)) >>,
      << Str(<<"y">>), IntCell(16), Str(<<"t","2">>), Flt(NaN),
         Str(<<"P","C">>), Str(<<"Y","E","S">>), Str(<<"N","o">>),
         Str(<<"N","o">>), Str(<<"N","o">>), Str(<<"N","o">>),
         Flt(NaN) >> }

RowSeqs(choicesOfRow) == UNION {[1..n -> choicesOfRow] : n \in 1..MaxRows}
\* what pd.read_csv returns for the files the operator uploads
Csvs ==
    {[columns |-> PlainColumns, rows |-> r] : r \in RowSeqs(PlainRows)}
        \cup {[columns |-> PartlyColumns, rows |-> r] : r \in RowSeqs(PartlyRows)}

\* the options of a selectbox the operator uses: ["-- skip --"] + list(df.columns)
Options(frame) == {SKIP} \cup (Labels(frame) \cap PickedSources)

\* pd.DataFrame([response])
ResponseFrame(response) ==
    [columns |-> STANDARD_COLUMNS,
     rows |-> << [j \in 1..Len(STANDARD_COLUMNS) |-> Str(response[STANDARD_COLUMNS[j]])] >>]

\* -- one run of the upload branch (lines 181-189), up to the call of
\* analyze_data ------------------------------------------------------------
UploadRun(csv, choices, resetClicked, saveClicked) ==
    LET f1 == IF resetClicked THEN reset_mapping(file) ELSE file
    IN  IF ~csv.some THEN
            /\ file' = f1
            /\ page' = [mode |-> UPLOAD, csv |-> csv, choices |-> AllSkip, flow |-> FALSE,
                        response |-> BlankResponse]
            /\ run' = [NoRun EXCEPT !.kind = "upload-empty", !.reset = resetClicked,
                                    !.before = f1]
            /\ df' = EmptyFrame
            /\ UNCHANGED pc
        ELSE LET m == map_google_forms(f1, csv.df, choices, saveClicked)
             IN  /\ file' = m.file
                 /\ page' = [mode |-> UPLOAD, csv |-> csv,
                             choices |-> IF m.entered THEN choices ELSE AllSkip,
                             flow |-> m.entered, response |-> BlankResponse]
                 /\ run' = [NoRun EXCEPT
                               !.kind = "upload", !.reset = resetClicked,
                               !.save = saveClicked, !.before = f1, !.saved = m.saved,
                               !.entered = m.entered, !.built = m.built,
                               !.applied = m.applied,
                               !.choices = IF m.entered THEN choices ELSE AllSkip,
                               !.source = csv.df]
                 /\ df' = m.df
                 /\ pc' = "analyze"

\* the radio is moved to the other mode
SelectMode ==
    /\ pc = "idle"
    /\ \/ /\ page.mode = UPLOAD
          /\ page' = FirstPage
          /\ run' = [NoRun EXCEPT !.kind = "form", !.before = file]
          /\ df' = EmptyFrame
          /\ UNCHANGED <<file, pc>>
       \/ /\ page.mode = MANUAL
          /\ UploadRun(NoUpload, AllSkip, FALSE, FALSE)
    /\ UNCHANGED <<riskVars, storeVars>>

\* a file is put into (or taken out of) the uploader
UploadFile ==
    /\ pc = "idle"
    /\ page.mode = UPLOAD
    /\ \E csv \in {NoUpload} \cup {Uploaded(frame) : frame \in Csvs} :
          /\ csv # page.csv
          /\ UploadRun(csv,
                 IF page.flow /\ csv.df.columns = page.csv.df.columns
                 THEN page.choices ELSE AllSkip,
                 FALSE, FALSE)
    /\ UNCHANGED <<riskVars, storeVars>>

\* one selectbox of the mapping form is moved
ChangeChoice ==
    /\ pc = "idle"
    /\ page.mode = UPLOAD /\ page.flow
    /\ \E std_col \in Pickable, choice \in Options(page.csv.df) :
          /\ choice # page.choices[std_col]
          /\ UploadRun(page.csv, [page.choices EXCEPT ![std_col] = choice], FALSE, FALSE)
    /\ UNCHANGED <<riskVars, storeVars>>

\* "Save Mapping" is clicked
ClickSave ==
    /\ pc = "idle"
    /\ page.mode = UPLOAD /\ page.flow
    /\ UploadRun(page.csv, page.choices, FALSE, TRUE)
    /\ UNCHANGED <<riskVars, storeVars>>

\* "Reset Mapping" is clicked
ClickReset ==
    /\ pc = "idle"
    /\ page.mode = UPLOAD
    /\ UploadRun(page.csv, page.choices, TRUE, FALSE)
    /\ UNCHANGED <<riskVars, storeVars>>

\* a text input of the entry form is edited
TypeResponse ==
    /\ pc = "idle"
    /\ page.mode = MANUAL
    /\ \E field \in DOMAIN TypedTexts : \E text \in TypedTexts[field] :
          /\ text # page.response[field]
          /\ page' = [page EXCEPT !.response[field] = text]
    /\ run' = [NoRun EXCEPT !.kind = "form", !.before = file]
    /\ df' = EmptyFrame
    /\ UNCHANGED <<file, pc, riskVars, storeVars>>

\* "Submit Response" is clicked (lines 176-179)
ClickSubmit ==
    /\ pc = "idle"
    /\ page.mode = MANUAL
    /\ run' = [NoRun EXCEPT !.kind = "submit", !.before = file,
                            !.source = ResponseFrame(page.response)]
    /\ df' = ResponseFrame(page.response)
    /\ pc' = "analyze"
    /\ UNCHANGED <<file, page, riskVars, storeVars>>

\* analyze_data, lines 154-158: the scores are appended, then the risk
\* summary is shown, which raises KeyError when there is no timestamp column
Analyze ==
    /\ pc = "analyze"
    /\ df' = WithRisk(df)
    /\ run' = [run EXCEPT !.analysed = TRUE, !.given = df, !.scored = WithRisk(df),
                          !.error = IF "timestamp" \in Labels(df) THEN "none"
                                    ELSE "KeyError timestamp"]
    /\ pc' = IF "timestamp" \in Labels(df) THEN "charts" ELSE "idle"
    /\ UNCHANGED <<file, page, riskVars, storeVars>>

\* analyze_data, lines 159-161: generate_charts(df)
Charts ==
    /\ pc = "charts"
    /\ df' = generate_charts(df).df
    /\ run' = [run EXCEPT !.error = generate_charts(df).error]
    /\ pc' = IF generate_charts(df).error = "none" THEN "pdf" ELSE "idle"
    /\ UNCHANGED <<file, page, riskVars, storeVars>>

\* analyze_data, line 162: generate_pdf(df, charts)
Pdf ==
    /\ pc = "pdf"
    /\ df' = generate_pdf(df).df
    /\ run' = [run EXCEPT !.lines = generate_pdf(df).lines]
    /\ pc' = "idle"
    /\ UNCHANGED <<file, page, riskVars, storeVars>>

Init ==
    /\ file = NoFile
    /\ page = FirstPage
    /\ run = NoRun
    /\ pc = "idle" /\ df = EmptyFrame
    /\ row = MkRow(<<>>) /\ result = NoResult
    /\ loaded = None /\ lastOp = NoOp

Next ==
    \/ SelectMode
    \/ UploadFile
    \/ ChangeChoice
    \/ ClickSave
    \/ ClickReset
    \/ TypeResponse
    \/ ClickSubmit
    \/ Analyze
    \/ Charts
    \/ Pdf

Spec == Init /\ [][Next]_vars

(***************************************************************************)
(* The mapping store on its own: any sequence of save, reset and load.     *)
(***************************************************************************)
\* most keys in a mapping handed to save
MaxKeys == 2
StoreKeys == {"Q1", "Q2", "age"}
StoreTargets == {"timestamp", "age"}

\* the dicts with at most MaxKeys keys, in every insertion order
StoreMappings ==
    UNION {{d \in [1..n -> StoreKeys \X StoreTargets] :
                \A i, j \in 1..n : i # j => d[i][1] # d[j][1]} : n \in 0..MaxKeys}

InitStore ==
    /\ file = NoFile /\ loaded = None /\ lastOp = NoOp
    /\ page = FirstPage /\ run = NoRun /\ pc = "idle" /\ df = EmptyFrame
    /\ row = MkRow(<<>>) /\ result = NoResult

\* lastOp.expect is the argument of the latest save with no reset after it;
\* lastOp.overwrote tells that this save replaced another mapping
SaveOp ==
    /\ \E mapping \in StoreMappings :
          /\ file' = save_mapping(file, mapping)
          /\ lastOp' = [op |-> "save", expect |-> Some(mapping), before |-> NoFile,
                        overwrote |-> file.exists /\ file.text # JsonDump(mapping)]
    /\ UNCHANGED <<loaded, riskVars, appVars>>

ResetOp ==
    /\ file' = reset_mapping(file)
    /\ lastOp' = [op |-> "reset", expect |-> None, before |-> file, overwrote |-> FALSE]
    /\ UNCHANGED <<loaded, riskVars, appVars>>

LoadOp ==
    /\ loaded' = load_mapping(file)
    /\ lastOp' = [lastOp EXCEPT !.op = "load", !.before = NoFile]
    /\ UNCHANGED <<file, riskVars, appVars>>

NextStore == SaveOp \/ ResetOp \/ LoadOp

SpecStore == InitStore /\ [][NextStore]_vars

(***************************************************************************)
(* The scorer on its own: a record is drawn, calculate_risk is applied.    *)
(***************************************************************************)
\* hours_academic: missing, unparsable, negative, whole, fractional
HoursAcademicCells ==
    { AbsentMark, Str(<<"a","b","c">>), Str(<<"-","5">>), Str(<<"2">>),
      Str(<<"2",".","9">>) }
\* hours_non_academic: missing, empty, a blank cell of a numeric CSV column
\* (float NaN), infinite, whole
HoursNonAcademicCells ==
    { AbsentMark, Str(<<>>), Flt(NaN), Str(<<"i","n","f">>), Str(<<"1">>), Str(<<"5">>) }
\* a symptom field: missing, empty, "Yes", "sometimes", "No", "YES"
SymptomCells ==
    { AbsentMark, Str(<<>>), Str(<<"Y","e","s">>),
      Str(<<"s","o","m","e","t","i","m","e","s">>), Str(<<"N","o">>), Str(<<"Y","E","S">>) }
SymptomSet == {symptoms[i] : i \in 1..Len(symptoms)}

InitRisk ==
    /\ \E ha \in HoursAcademicCells, hn \in HoursNonAcademicCells,
          sy \in [SymptomSet -> SymptomCells] :
          row = MkRow([f \in SymptomSet \cup {"hours_academic", "hours_non_academic"} |->
                        IF f = "hours_academic" THEN ha
                        ELSE IF f = "hours_non_academic" THEN hn
                        ELSE sy[f]])
    /\ result = NoResult
    /\ file = NoFile /\ loaded = None /\ lastOp = NoOp
    /\ page = FirstPage /\ run = NoRun /\ pc = "idle" /\ df = EmptyFrame

\* score, risk = calculate_risk(row)
Score ==
    /\ result = NoResult
    /\ result' = calculate_risk(row)
    /\ UNCHANGED <<row, file, storeVars, appVars>>

NextRisk == Score

SpecRisk == InitRisk /\ [][NextRisk]_vars

(***************************************************************************)
(* Claims about calculate_risk, under SpecRisk                             *)
(***************************************************************************)
Scored == result # NoResult
InRange(score) == score.k = "fin" /\ 0 <= score.v /\ score.v <= 1000
\* a >= b, false when either is NaN
FGe(a, b) == a.k # "nan" /\ b.k # "nan" /\ ~FLt(a, b)

\* an hours field as the claim takes it: missing, a number, or unparsable
NumberOrUnparsable(f) == FloatOfField(row, f).k \in {"fin", "inf", "error"}

\* C3 as stated: the score is within [0, 100] for all hours values that
\* parse as numbers (negative ones and zero too) or fail to parse
C3_ScoreInRange ==
    (Scored /\ NumberOrUnparsable("hours_academic")
            /\ NumberOrUnparsable("hours_non_academic"))
        => InRange(result.score)

\* C3 amended: the score is within [0, 100] whenever the hours sum the code
\* computes (0 on a parse failure) is a number >= 0
C3_ScoreInRangeNonNegative ==
    (Scored /\ FGe(HoursOf(row), Num(0))) => InRange(result.score)

C3_Witness ==
    /\ Scored
    /\ FGe(HoursOf(row), Num(0))
    /\ FloatOfField(row, "hours_academic") = Num(2)
    /\ FloatOfField(row, "hours_non_academic") = Num(5)
    /\ result = [score |-> Num(100), risk |-> "High"]

\* C4 as stated: Low exactly when score < 30, Medium exactly when
\* 30 <= score < 60, High exactly when score >= 60
C4_LevelMatchesScore ==
    Scored =>
        /\ (result.risk = "Low") <=> FLt(result.score, Num(30))
        /\ (result.risk = "Medium") <=>
               (FGe(result.score, Num(30)) /\ FLt(result.score, Num(60)))
        /\ (result.risk = "High") <=> FGe(result.score, Num(60))

\* what one symptom field adds to the score: the score of the record less the
\* score of the same record without that field
Contribution(s) == result.score.v - calculate_risk(Without(row, s)).score.v

StatedSymptomValues ==
    { <<"Y","e","s">>, <<"y","e","s">>, <<"S","o","m","e","t","i","m","e","s">>,
      <<"s","o","m","e","t","i","m","e","s">> }

\* C5 as stated: a symptom field adds 10 points when its value is one of
\* "Yes", "yes", "Sometimes", "sometimes" and 0 points for every other value
C5_ExactSpellings ==
    (Scored /\ result.score.k = "fin") =>
        \A s \in SymptomSet :
            Contribution(s) =
                IF s \in DOMAIN row /\ StrOf(row[s]) \in StatedSymptomValues
                THEN 100 ELSE 0

\* C5 amended: a symptom field adds 10 points when its value, lower-cased,
\* is "yes" or "sometimes" (any spelling of the case), and 0 points otherwise;
\* the symptom contribution is the sum over the five fields
C5_CaseInsensitive ==
    (Scored /\ result.score.k = "fin") =>
        /\ \A s \in SymptomSet :
            Contribution(s) =
                IF s \in DOMAIN row
                   /\ Lower(StrOf(row[s])) \in
                        {<<"y","e","s">>, <<"s","o","m","e","t","i","m","e","s">>}
                THEN 100 ELSE 0
        /\ result.score.v - calculate_risk(
               [f \in DOMAIN row \ SymptomSet |-> row[f]]).score.v
             = 100 * Cardinality({s \in SymptomSet : Contribution(s) = 100})

C5_Witness ==
    /\ Scored
    /\ result.score.k = "fin"
    /\ "eye_strain" \in DOMAIN row /\ row["eye_strain"] = Str(<<"Y","E","S">>)
    /\ Contribution("eye_strain") = 100
    /\ "dry_eyes" \in DOMAIN row /\ row["dry_eyes"] = Str(<<"N","o">>)
    /\ "headaches" \notin DOMAIN row
    /\ "neck_pain" \in DOMAIN row /\ row["neck_pain"] = Str(<<>>)

\* the fields whose text, lower-cased, is "yes" or "sometimes"
Qualifying ==
    {s \in SymptomSet :
        s \in DOMAIN row
        /\ Lower(StrOf(row[s])) \in
              {<<"y","e","s">>, <<"s","o","m","e","t","i","m","e","s">>}}

HoursFieldFails(f) == f \in DOMAIN row /\ FloatOf(row[f]).k = "error"

\* C6: when either hours field fails to parse, the hours contribution is 0
\* whatever the other field holds, and the score is 10 times the number of
\* qualifying symptoms
C6_ParseFailureZeroesHours ==
    (Scored /\ (HoursFieldFails("hours_academic") \/ HoursFieldFails("hours_non_academic")))
        => result.score = Num(10 * Cardinality(Qualifying))

C6_Witness ==
    /\ Scored
    /\ "hours_academic" \in DOMAIN row /\ row["hours_academic"] = Str(<<"a","b","c">>)
    /\ "hours_non_academic" \in DOMAIN row /\ row["hours_non_academic"] = Str(<<"5">>)
    /\ Cardinality(Qualifying) = 2
    /\ result = [score |-> Num(20), risk |-> "Low"]



(***************************************************************************)
(* Claim about the mapping store, under SpecStore                          *)
(***************************************************************************)
\* C1: load() returns the mapping of the latest save() when no reset() came
\* after it, and None when there was no save() since the last reset() or the
\* start; save() replaces whatever was stored; reset() of an empty store
\* changes nothing
C1_RoundTrip ==
    /\ lastOp.op = "load" => loaded = lastOp.expect
    /\ lastOp.op = "save" => load_mapping(file) = lastOp.expect
    /\ lastOp.op = "reset" =>
          /\ load_mapping(file) = None
          /\ ~lastOp.before.exists => file = lastOp.before

C1_Witness ==
    /\ lastOp.op = "load"
    /\ lastOp.overwrote
    /\ loaded = Some(<< <<"age", "age">>, <<"Q1", "timestamp">> >>)

(***************************************************************************)
(* Claims about the upload branch and the pipeline, under Spec             *)
(***************************************************************************)
\* C2 as stated: while a mapping is persisted (saved and not reset since), a
\* bulk import applies it and does not enter the interactive flow; the flow
\* is entered only when no mapping is persisted
C2_PersistedMappingReused ==
    (run.kind = "upload" /\ run.before.exists) =>
        /\ ~run.entered
        /\ run.applied = load_mapping(run.before)

C8_AnalysedOnlyAfterMapping ==
    (run.kind = "upload" /\ run.analysed) => run.applied.some

\* the canonical fields, by index, whose selectbox holds source column c
PickedFor(c) == {i \in 1..Len(STANDARD_COLUMNS) : run.choices[STANDARD_COLUMNS[i]] = c}
Last(indices) == CHOOSE i \in indices : \A k \in indices : k <= i

\* C9: in the mapping the interactive flow builds, a source column is a key
\* exactly when some canonical field picked it, and only once; it is mapped to
\* the last canonical field, in schema order, that picked it; skipping adds
\* no entry; no two keys share a target
C9_LastPickWins ==
    run.built.some =>
        LET mapping == run.built.d
        IN  /\ \A i, j \in 1..Len(mapping) : i # j =>
                  mapping[i][1] # mapping[j][1] /\ mapping[i][2] # mapping[j][2]
            /\ SKIP \notin DictKeys(mapping)
            /\ DictKeys(mapping) =
                  {run.choices[c] : c \in StandardSet} \ {SKIP}
            /\ \A c \in DictKeys(mapping) :
                  DictGet(mapping, c) = STANDARD_COLUMNS[Last(PickedFor(c))]

C9_Witness ==
    /\ run.built.some
    /\ run.choices["timestamp"] = "Q1"
    /\ run.choices["age"] = "Q2"
    /\ run.choices["break_frequency"] = "Q1"
    /\ run.built.d = << <<"Q1", "break_frequency">>, <<"Q2", "age">> >>
    /\ run.save /\ load_mapping(file) = run.built

\* C10 as stated: once analyze_data has appended risk_score and risk_level,
\* generate_charts and generate_pdf leave the frame as it is
C10_NeverMutatedAfterScoring == run.analysed => df = run.scored

HelperColumns == {"break_frequency_numeric", "symptom_score"}

\* C10 amended: after the scoring step no canonical field value, risk_score
\* or risk_level changes and no record is added or removed; the only fields
\* added are the two helper fields of generate_charts, break_frequency_numeric
\* and symptom_score, and only when the frame has a break_frequency column;
\* generate_pdf adds nothing
C10_OnlyHelperColumnsAdded ==
    run.analysed =>
        /\ Len(df.rows) = Len(run.scored.rows)
        /\ Len(df.columns) >= Len(run.scored.columns)
        /\ \A j \in 1..Len(run.scored.columns) :
              /\ df.columns[j] = run.scored.columns[j]
              /\ df.columns[j] \notin HelperColumns =>
                    \A i \in 1..Len(df.rows) : df.rows[i][j] = run.scored.rows[i][j]
        /\ \A j \in (Len(run.scored.columns) + 1)..Len(df.columns) :
              /\ df.columns[j] \in HelperColumns
              /\ "break_frequency" \in Labels(run.scored)
              /\ pc \in {"pdf", "idle"}
        /\ pc = "idle" /\ run.error = "none" =>
              Len(run.lines) = Len(df.rows)

C10_Witness ==
    /\ run.analysed /\ pc = "idle" /\ run.error = "none"
    /\ run.kind = "submit"
    /\ Len(run.lines) = 1
    /\ df.columns = run.scored.columns \o <<"break_frequency_numeric", "symptom_score">>
    /\ df.rows[1][Len(df.columns) - 1] = IntCell(3)
    /\ df.rows[1][Len(df.columns)] = IntCell(1)

====
